---- MODULE Spec2Model ----
(***************************************************************************)
(* Model of gemini-ai-sdk: the MIME classifier (getFileType), the part     *)
(* assembler (Gemini.messageToParts), the upload dispatcher and its        *)
(* polling loop (Gemini.uploadFile), the request facade (Gemini.ask,       *)
(* Gemini.askStream) and the chat session (Chat).                          *)
(*                                                                         *)
(* A byte buffer is abstracted to its length and its content signature     *)
(* (what fileTypeFromBuffer would sniff); a time in milliseconds is an     *)
(* exact fraction [num, den], since waitTime * 1.5 leaves the integers.    *)
(***************************************************************************)
EXTENDS Integers, Sequences, FiniteSets, TLC

\* ------------------------------------------------------------------ bounds
MaxLen == 2          \* longest message list given to messageToParts
MaxPending == 1      \* non-terminal status answers per upload, inside messageToParts
MaxPolls == 10       \* non-terminal status answers per upload, uploadFile on its own
MaxHistory == 3      \* longest chat history

\* ------------------------------------------------------- values and inputs
MiB == 1024 * 1024

Undefined == "undefined"     \* JS undefined, where a string is expected
Null == "null"               \* JS null, where a string is expected

\* README.md:263-301
supportedFileFormats ==
  { "image/png", "image/jpeg", "image/webp", "image/heic", "image/heif",
    "audio/wav", "audio/mp3", "audio/mpeg", "audio/aiff", "audio/aac",
    "audio/ogg", "audio/flac",
    "video/mp4", "video/mpeg", "video/mov", "video/avi", "video/x-flv",
    "video/mpg", "video/webm", "video/wmv", "video/3gpp",
    "text/plain", "text/html", "text/css", "text/javascript",
    "application/x-javascript", "text/x-typescript", "application/x-typescript",
    "text/csv", "text/markdown", "text/x-python", "application/x-python-code",
    "application/json", "text/xml", "application/rtf", "text/rtf",
    "application/pdf" }

\* README.md:306-309; formatMap[k] is undefined for any other key
formatMap(k) ==
  IF k = "audio/mpeg" THEN "audio/mp3"
  ELSE IF k = "video/quicktime" THEN "video/mov"
  ELSE Undefined

\* a || b on strings: undefined, null and "" are falsy
OrElse(a, b) == IF a \in {Undefined, Null, ""} THEN b ELSE a

\* fileTypeFromBuffer(buffer)?.mime: the signature of the content, undefined when
\* the content has none (plain text, unknown data)
fileTypeFromBuffer(buffer) == buffer.sig

\* mime.getType(filePath): by extension, null when the extension is unknown
mimeGetType(filePath) ==
  IF filePath = "clip.mov" THEN "video/quicktime"
  ELSE IF filePath = "song.mp3" THEN "audio/mpeg"
  ELSE IF filePath = "a.png" THEN "image/png"
  ELSE IF filePath = "notes.txt" THEN "text/plain"
  ELSE IF filePath = "a.zip" THEN "application/zip"
  ELSE Null

\* String.prototype.startsWith("video") over the MIME types of the model
startsWithVideo(m) ==
  m \in { "video/mp4", "video/mpeg", "video/mov", "video/avi", "video/x-flv",
          "video/mpg", "video/webm", "video/wmv", "video/3gpp", "video/quicktime" }

\* getFileType, README.md:318-345.  Result: [threw, format].
sniffedFormat(buffer) ==
  LET m == fileTypeFromBuffer(buffer) IN OrElse(formatMap(m), m)

extensionFormat(filePath) ==
  LET m == mimeGetType(filePath) IN OrElse(formatMap(m), m)

\* the default is forgotten: the unsupported format is returned as it is
DefaultFormatMissing(valid, format) == format

\* README.md:334-341 with strict off
DefaultFormat(valid, format) == IF valid THEN format ELSE "text/plain"

getFileType(buffer, filePath, strict) ==
  LET format1 == sniffedFormat(buffer)
      valid1 == format1 \in supportedFileFormats
      usePath == ~valid1 /\ filePath \notin {Undefined, ""}
      format2 == IF usePath THEN extensionFormat(filePath) ELSE format1
      valid2 == IF usePath THEN format2 \in supportedFileFormats ELSE valid1
  IN IF ~valid2 /\ strict
       THEN [threw |-> TRUE, format |-> format2]
       ELSE [threw |-> FALSE, format |-> DefaultFormat(valid2, format2)]

\* isFileUpload, README.md:256-258: data && data.buffer && data.filePath.
\* A message is [kind |-> "string", text], [kind |-> "bytes", buffer] (an
\* ArrayBuffer or Uint8Array: it has no filePath) or [kind |-> "object", buffer,
\* filePath]; a buffer object is always truthy, the empty path is falsy.
isFileUpload(data) ==
  /\ data.kind = "object"
  /\ data.filePath \notin {Undefined, ""}

\* Buffer.from(buffer).byteLength
byteLength(buffer) == buffer.size

\* Buffer.from(buffer).toString("base64"): 4 characters per 3 bytes, padded
base64Encode(buffer) ==
  [ len |-> 4 * ((buffer.size + 2) \div 3),
    pad |-> (3 - (buffer.size % 3)) % 3,
    sig |-> buffer.sig ]

\* Buffer.from(data, "base64")
base64Decode(data) ==
  [ size |-> 3 * (data.len \div 4) - data.pad, sig |-> data.sig ]

\* Part constructors (the three variants of Part)
TextPart(t) == [text |-> t]
InlineDataPart(m, d) == [inlineData |-> [mimeType |-> m, data |-> d]]
FileDataPart(m, u) == [fileData |-> [mimeType |-> m, fileUri |-> u]]

isText(part) == "text" \in DOMAIN part
isInline(part) == "inlineData" \in DOMAIN part
isFileData(part) == "fileData" \in DOMAIN part

\* ------------------------------------------------------------------ state
VARIABLES
  \* Gemini.messageToParts
  messages,     \* the argument
  i,            \* position of the for-of loop (1-based)
  parts,        \* const parts: Part[]
  origin,       \* ghost: origin[k] is the index of the input that produced parts[k]
  totalBytes,   \* let totalBytes
  idx,          \* position of the for-in loop of the post-pass (1-based)
  pc,           \* where the caller of uploadFile stands
  \* Gemini.uploadFile
  upPc,         \* where uploadFile stands
  upFile,       \* its argument {file, mimeType}
  fileSendData, \* fileSendDataRaw.file
  waitTime,     \* let waitTime
  data,         \* the last status answer
  pending,      \* non-terminal status answers of this call so far
  upResult,     \* the URI it returned, or the error it threw
  uploads,      \* files the service has accepted so far (it names them in order)
  log,          \* ghost: upload requests, status queries and sleeps, in order
  \* getFileType
  ftArgs,       \* {buffer, filePath, strict}
  ftResult,     \* what the call returned or threw
  \* Chat and the request facade
  heap,         \* the arrays held by reference: heap[ref] is the array's content
  chat,         \* the Chat object: {history (a reference), options}
  sent          \* ghost: the calls made to the external sendMessage(Stream)

asmVars == <<messages, i, parts, origin, totalBytes, idx, pc>>
upVars == <<upPc, upFile, fileSendData, waitTime, data, pending, upResult, uploads, log>>
ftVars == <<ftArgs, ftResult>>
chatVars == <<heap, chat, sent>>
vars == <<asmVars, upVars, ftVars, chatVars>>

\* ------------------------------------------------------ Gemini.uploadFile
Frac(n, d) == [num |-> n, den |-> d]
FracLeq(a, b) == a.num * b.den <= b.num * a.den
FracEq(a, b) == a.num * b.den = b.num * a.den
MathMin(a, b) == IF FracLeq(a, b) THEN a ELSE b

\* README.md:492-493
InitialWait == Frac(250, 1)
MAX_BACKOFF == Frac(5000, 1)

\* the cap is forgotten
NextWaitNoCap(w) == Frac(w.num * 3, w.den * 2)

\* README.md:511: Math.min(waitTime * 1.5, MAX_BACKOFF)
NextWait(w) == MathMin(Frac(w.num * 3, w.den * 2), MAX_BACKOFF)

\* what the status endpoint can answer: {error?, state}
NoError == Undefined
StatusAnswers ==
  [ error : {NoError, "quota exceeded"}, state : {"PROCESSING", "ACTIVE", "FAILED"} ]

\* the error is looked at only once the file is no longer processing
hasErrorWhenDone(answer) == answer.error # NoError /\ answer.state # "PROCESSING"

\* README.md:503: if (data.error)
hasError(answer) == answer.error # NoError

\* anything but PROCESSING ends the loop
isNotProcessing(answer) == answer.state # "PROCESSING"

\* README.md:507: data.state === "ACTIVE"
isActive(answer) == answer.state = "ACTIVE"
isTerminal(answer) == hasError(answer) \/ isActive(answer)

\* README.md:504 and 513: the error thrown in the loop, re-thrown by the catch
PollError(msg) ==
  << "An error occurred while uploading to Google's File API: ",
     "Google's File API responded with an error: ", msg >>
\* README.md:498 with fileSendData undefined: the TypeError, re-thrown by the catch
NoFileError ==
  << "An error occurred while uploading to Google's File API: ",
     "Cannot read properties of undefined (reading 'name')" >>

NoFile == [name |-> 0, uri |-> 0]      \* fileSendData === undefined
NoData == [error |-> NoError, state |-> "NONE"]
NoResult == [kind |-> "none"]         \* uploadFile has neither returned nor thrown
NoUpload == [file |-> [size |-> 0, sig |-> Undefined], mimeType |-> Undefined, src |-> 0]

\* the call uploadFile({file, mimeType}); src is the ghost index of the input
CallUpload(file, mimeType, src) ==
  /\ upPc' = "request"
  /\ upFile' = [file |-> file, mimeType |-> mimeType, src |-> src]
  /\ fileSendData' = NoFile
  /\ waitTime' = InitialWait
  /\ data' = NoData
  /\ pending' = 0
  /\ upResult' = NoResult
  /\ UNCHANGED <<uploads, log>>

\* README.md:478-493: the POST of the file; the service answers {file: {name, uri}}
\* or a body without file (an error body)
UploadRequest ==
  /\ upPc = "request"
  /\ log' = Append(log, [ev |-> "upload", src |-> upFile.src,
                          mimeType |-> upFile.mimeType, size |-> byteLength(upFile.file)])
  /\ \E accepted \in BOOLEAN :
       IF accepted
         THEN /\ uploads' = uploads + 1
              /\ fileSendData' = [name |-> uploads + 1, uri |-> uploads + 1]
         ELSE /\ uploads' = uploads
              /\ fileSendData' = NoFile
  /\ waitTime' = InitialWait
  /\ upPc' = "poll"
  /\ UNCHANGED <<upFile, data, pending, upResult>>
  /\ UNCHANGED <<asmVars, ftVars, chatVars>>

\* README.md:496-507: one status query and the branch on its answer
StatusQuery(cap) ==
  /\ upPc = "poll"
  /\ IF fileSendData = NoFile
       THEN /\ upPc' = "failed"
            /\ upResult' = [kind |-> "error", message |-> NoFileError]
            /\ UNCHANGED <<data, pending, log>>
       ELSE \E answer \in StatusAnswers :
            /\ isTerminal(answer) \/ pending < cap
            /\ log' = Append(log, [ev |-> "status", src |-> upFile.src,
                                    name |-> fileSendData.name])
            /\ data' = answer
            /\ IF hasError(answer)
                 THEN /\ upPc' = "failed"
                      /\ upResult' = [kind |-> "error", message |-> PollError(answer.error)]
                      /\ pending' = pending
                 ELSE IF isActive(answer)
                 THEN /\ upPc' = "returned"
                      /\ upResult' = [kind |-> "uri", uri |-> fileSendData.uri]
                      /\ pending' = pending
                 ELSE /\ upPc' = "sleep"
                      /\ upResult' = upResult
                      /\ pending' = pending + 1
  /\ UNCHANGED <<upFile, fileSendData, waitTime, uploads>>
  /\ UNCHANGED <<asmVars, ftVars, chatVars>>

\* the loop gives up after a fixed number of attempts
whileAttemptsLeft(attempts) == attempts < 3

\* README.md:496: while (true), whatever the number of attempts so far
whileCondition(attempts) == TRUE

\* README.md:509-511, 496 and 517: the sleep, the growth of waitTime and the
\* next turn of the loop (were the loop to end, line 517 would return the URI)
Sleep ==
  /\ upPc = "sleep"
  /\ log' = Append(log, [ev |-> "sleep", src |-> upFile.src, ms |-> waitTime])
  /\ waitTime' = NextWait(waitTime)
  /\ IF whileCondition(pending)
       THEN /\ upPc' = "poll"
            /\ upResult' = upResult
       ELSE /\ upPc' = "returned"
            /\ upResult' = [kind |-> "uri", uri |-> fileSendData.uri]
  /\ UNCHANGED <<upFile, fileSendData, data, pending, uploads>>
  /\ UNCHANGED <<asmVars, ftVars, chatVars>>

\* ------------------------------------------------- Gemini.messageToParts
\* README.md:532: msg instanceof ArrayBuffer || msg instanceof Uint8Array || isFileUpload(msg)
isBinary(msg) == msg.kind = "bytes" \/ isFileUpload(msg)
\* README.md:534-535
bufferOf(msg) == msg.buffer
filePathOf(msg) == IF isFileUpload(msg) THEN msg.filePath ELSE Undefined
\* README.md:538: getFileType(buffer, filePath), strict off
mimeTypeOf(msg) == getFileType(bufferOf(msg), filePathOf(msg), FALSE).format
\* README.md:565
Threshold == 20 * MiB

\* only a video that is large is uploaded
isVideoAndLarge(msg) ==
  startsWithVideo(mimeTypeOf(msg)) /\ byteLength(bufferOf(msg)) > 10 * MiB

\* README.md:540: the branch taken for a binary input
isVideo(msg) == startsWithVideo(mimeTypeOf(msg))

\* the comparison is turned around
ExceedsThresholdReversed(total) == total < Threshold

\* the comparison includes the threshold
ExceedsThresholdInclusive(total) == total >= Threshold

\* README.md:565
ExceedsThreshold(total) == total > Threshold

\* README.md:530-531: a string becomes a text part
LoopText ==
  /\ pc = "loop" /\ i <= Len(messages)
  /\ messages[i].kind = "string"
  /\ parts' = Append(parts, TextPart(messages[i].text))
  /\ origin' = Append(origin, i)
  /\ i' = i + 1
  /\ UNCHANGED <<messages, totalBytes, idx, pc>>
  /\ UNCHANGED <<upVars, ftVars, chatVars>>

\* README.md:532-547: a binary input that is no video becomes an inline part
LoopInline ==
  /\ pc = "loop" /\ i <= Len(messages)
  /\ messages[i].kind # "string" /\ isBinary(messages[i])
  /\ ~isVideo(messages[i])
  /\ totalBytes' = totalBytes + byteLength(bufferOf(messages[i]))
  /\ parts' = Append(parts, InlineDataPart(mimeTypeOf(messages[i]),
                                           base64Encode(bufferOf(messages[i]))))
  /\ origin' = Append(origin, i)
  /\ i' = i + 1
  /\ UNCHANGED <<messages, idx, pc>>
  /\ UNCHANGED <<upVars, ftVars, chatVars>>

\* README.md:532-552: a video is handed to uploadFile, which is awaited
LoopVideo ==
  /\ pc = "loop" /\ i <= Len(messages)
  /\ messages[i].kind # "string" /\ isBinary(messages[i])
  /\ isVideo(messages[i])
  /\ totalBytes' = totalBytes + byteLength(bufferOf(messages[i]))
  /\ CallUpload(bufferOf(messages[i]), mimeTypeOf(messages[i]), i)
  /\ pc' = "await_video"
  /\ UNCHANGED <<messages, i, parts, origin, idx>>
  /\ UNCHANGED <<ftVars, chatVars>>

\* README.md:553-560: uploadFile returned: the file-data part is pushed
VideoUploaded ==
  /\ pc = "await_video" /\ upPc = "returned"
  /\ parts' = Append(parts, FileDataPart(upFile.mimeType, upResult.uri))
  /\ origin' = Append(origin, i)
  /\ i' = i + 1
  /\ pc' = "loop"
  /\ upPc' = "idle"
  /\ UNCHANGED <<messages, totalBytes, idx>>
  /\ UNCHANGED <<upFile, fileSendData, waitTime, data, pending, upResult, uploads, log>>
  /\ UNCHANGED <<ftVars, chatVars>>

\* README.md:530-562: an input that is neither a string nor binary matches no
\* branch of the loop body
LoopOther ==
  /\ pc = "loop" /\ i <= Len(messages)
  /\ messages[i].kind # "string" /\ ~isBinary(messages[i])
  /\ i' = i + 1
  /\ UNCHANGED <<messages, parts, origin, totalBytes, idx, pc>>
  /\ UNCHANGED <<upVars, ftVars, chatVars>>

\* README.md:563-565 and 584: the loop is over; the post-pass runs or parts is returned
LoopEnd ==
  /\ pc = "loop" /\ i > Len(messages)
  /\ IF ExceedsThreshold(totalBytes)
       THEN pc' = "post" /\ idx' = 1
       ELSE pc' = "done" /\ idx' = idx
  /\ UNCHANGED <<messages, i, parts, origin, totalBytes>>
  /\ UNCHANGED <<upVars, ftVars, chatVars>>

\* README.md:566-568: a part of the post-pass that is not inline is left alone
PostKeep ==
  /\ pc = "post" /\ idx <= Len(parts)
  /\ ~isInline(parts[idx])
  /\ idx' = idx + 1
  /\ UNCHANGED <<messages, i, parts, origin, totalBytes, pc>>
  /\ UNCHANGED <<upVars, ftVars, chatVars>>

\* README.md:568-572: an inline part is decoded and handed to uploadFile
PostPromote ==
  /\ pc = "post" /\ idx <= Len(parts)
  /\ isInline(parts[idx])
  /\ CallUpload(base64Decode(parts[idx].inlineData.data),
                parts[idx].inlineData.mimeType, origin[idx])
  /\ pc' = "await_promote"
  /\ UNCHANGED <<messages, i, parts, origin, totalBytes, idx>>
  /\ UNCHANGED <<ftVars, chatVars>>

\* README.md:573-579: uploadFile returned: the part is replaced in place
Promoted ==
  /\ pc = "await_promote" /\ upPc = "returned"
  /\ parts' = [parts EXCEPT ![idx] = FileDataPart(parts[idx].inlineData.mimeType,
                                                  upResult.uri)]
  /\ idx' = idx + 1
  /\ pc' = "post"
  /\ upPc' = "idle"
  /\ UNCHANGED <<messages, i, origin, totalBytes>>
  /\ UNCHANGED <<upFile, fileSendData, waitTime, data, pending, upResult, uploads, log>>
  /\ UNCHANGED <<ftVars, chatVars>>

\* README.md:582-584: the post-pass is over; parts is returned
PostEnd ==
  /\ pc = "post" /\ idx > Len(parts)
  /\ pc' = "done"
  /\ UNCHANGED <<messages, i, parts, origin, totalBytes, idx>>
  /\ UNCHANGED <<upVars, ftVars, chatVars>>

\* README.md:549 and 569: an error thrown by the awaited uploadFile leaves
\* messageToParts
UploadThrew ==
  /\ pc \in {"await_video", "await_promote"} /\ upPc = "failed"
  /\ pc' = "failed"
  /\ upPc' = "idle"
  /\ UNCHANGED <<messages, i, parts, origin, totalBytes, idx>>
  /\ UNCHANGED <<upFile, fileSendData, waitTime, data, pending, upResult, uploads, log>>
  /\ UNCHANGED <<ftVars, chatVars>>

\* --------------------------------------------------------- inputs, Init
Texts == {"a", "b"}
BufSizes == {10 * MiB, 10 * MiB + 1}
Signatures == {Undefined, "video/quicktime"}
Buffers == [size : BufSizes, sig : Signatures]
Paths == {"", "clip.mov", "a.png"}
Messages ==
  [kind : {"string"}, text : Texts]
    \cup [kind : {"bytes"}, buffer : Buffers]
    \cup [kind : {"object"}, buffer : Buffers, filePath : Paths]
MessageLists == UNION { [1..n -> Messages] : n \in 0..MaxLen }

\* the values of the variables of an operation that is not running
AsmIdle ==
  /\ messages = <<>> /\ i = 1 /\ parts = <<>> /\ origin = <<>>
  /\ totalBytes = 0 /\ idx = 1
UpInit ==
  /\ upPc = "idle" /\ upFile = NoUpload /\ fileSendData = NoFile
  /\ waitTime = InitialWait /\ data = NoData /\ pending = 0 /\ upResult = NoResult
  /\ uploads = 0 /\ log = <<>>
FtIdle ==
  /\ ftArgs = [buffer |-> [size |-> 0, sig |-> Undefined], filePath |-> Undefined,
               strict |-> FALSE]
  /\ ftResult = [kind |-> "none"]
ChatIdle ==
  /\ heap = <<>> /\ chat = [history |-> 0] /\ sent = [via |-> "none"]

\* messageToParts(messages) has been called
Init ==
  /\ messages \in MessageLists
  /\ i = 1 /\ parts = <<>> /\ origin = <<>> /\ totalBytes = 0 /\ idx = 1
  /\ pc = "loop"
  /\ UpInit /\ FtIdle /\ ChatIdle

Next ==
  \/ LoopText \/ LoopInline \/ LoopVideo \/ VideoUploaded \/ LoopOther \/ LoopEnd
  \/ PostKeep \/ PostPromote \/ Promoted \/ PostEnd \/ UploadThrew
  \/ UploadRequest \/ StatusQuery(MaxPending) \/ Sleep

Spec == Init /\ [][Next]_vars

\* uploadFile({file, mimeType}) has been called on its own
UploadFiles == [file : Buffers, mimeType : {"video/mov", "text/plain"}]
InitUpload ==
  /\ AsmIdle /\ pc = "direct"
  /\ \E f \in UploadFiles :
       /\ upPc = "request"
       /\ upFile = [file |-> f.file, mimeType |-> f.mimeType, src |-> 0]
  /\ fileSendData = NoFile /\ waitTime = InitialWait /\ data = NoData
  /\ pending = 0 /\ upResult = NoResult /\ uploads = 0 /\ log = <<>>
  /\ FtIdle /\ ChatIdle

NextUpload == UploadRequest \/ StatusQuery(MaxPolls) \/ Sleep

SpecUpload == InitUpload /\ [][NextUpload]_vars

\* every request gets its answer and every timer fires: an awaited fetch or
\* setTimeout that can complete does complete
SpecUploadFair ==
  /\ InitUpload /\ [][NextUpload]_vars
  /\ WF_vars(UploadRequest) /\ WF_vars(StatusQuery(MaxPolls)) /\ WF_vars(Sleep)

\* ------------------------------------------------------------ getFileType
FtSignatures == {Undefined, "image/png", "audio/mpeg", "video/quicktime", "application/zip"}
FtPaths == {Undefined, "", "clip.mov", "song.mp3", "a.png", "notes.txt", "a.zip", "README"}

\* getFileType(buffer, filePath, {strict}) has been called
InitFileType ==
  /\ AsmIdle /\ pc = "none" /\ UpInit /\ ChatIdle
  /\ ftArgs \in [buffer : [size : {3}, sig : FtSignatures], filePath : FtPaths,
                 strict : BOOLEAN]
  /\ ftResult = [kind |-> "none"]

\* README.md:344: return format
FileTypeReturn ==
  /\ ftResult.kind = "none"
  /\ ~getFileType(ftArgs.buffer, ftArgs.filePath, ftArgs.strict).threw
  /\ ftResult' = [kind |-> "returned",
                  format |-> getFileType(ftArgs.buffer, ftArgs.filePath, ftArgs.strict).format]
  /\ UNCHANGED <<ftArgs, asmVars, upVars, chatVars>>

\* README.md:336-338: throw new Error(...)
FileTypeThrow ==
  /\ ftResult.kind = "none"
  /\ getFileType(ftArgs.buffer, ftArgs.filePath, ftArgs.strict).threw
  /\ ftResult' = [kind |-> "threw"]
  /\ UNCHANGED <<ftArgs, asmVars, upVars, chatVars>>

NextFileType == FileTypeReturn \/ FileTypeThrow

SpecFileType == InitFileType /\ [][NextFileType]_vars

\* ------------------------------------------- Chat and the request facade
\* An options object is a function from the keys it has to their values; the
\* value of the key history is [defined |-> FALSE] (undefined) or a reference
\* to an array [defined |-> TRUE, ref |-> r].
NoHistory == [defined |-> FALSE]
ArrayRef(r) == [defined |-> TRUE, ref |-> r]

\* {...a, ...b}
Spread(a, b) ==
  [k \in DOMAIN a \cup DOMAIN b |-> IF k \in DOMAIN b THEN b[k] ELSE a[k]]

\* options.history, undefined when the key is missing
historyOf(options) ==
  IF "history" \in DOMAIN options THEN options["history"] ELSE NoHistory

Turns ==
  { [role |-> "user", parts |-> <<TextPart("a")>>],
    [role |-> "model", parts |-> <<TextPart("b")>>] }

\* the arrays of the model: 1 is the array given to the constructor, 2 the
\* array the constructor creates, 3 and 4 arrays given as per-call history
GivenRef == 1
OwnRef == 2
CallRefs == {3, 4}
CallOptions ==
  { <<>>, [k \in {"model"} |-> "gemini-pro"], [k \in {"history"} |-> NoHistory] }
    \cup { [k \in {"history"} |-> ArrayRef(r)] : r \in CallRefs }
CtorOptions ==
  { <<>>, [k \in {"model"} |-> "gemini-flash"], [k \in {"history"} |-> NoHistory],
    [k \in {"history"} |-> ArrayRef(GivenRef)] }

\* what a caller passes as message: a string or a list
StringMessage(t) == [isString |-> TRUE, text |-> t]
ListMessage(l) == [isString |-> FALSE, items |-> l]
SomeBuffer == [size |-> 3, sig |-> "image/png"]
AskMessages ==
  { StringMessage("hello"),
    ListMessage(<<TextPart("a")>>),
    ListMessage(<<TextPart("a"), InlineDataPart("image/png", base64Encode(SomeBuffer))>>),
    ListMessage(<<TextPart("a"), FileDataPart("video/mov", 1)>>),
    ListMessage(<<TextPart("a"),
                  [kind |-> "object", buffer |-> SomeBuffer, filePath |-> "a.png"]>>),
    ListMessage(<<[kind |-> "bytes", buffer |-> SomeBuffer]>>) }

\* README.md:595 and 625: typeof message === "string" ? [{ text: message }] : message
partsOf(message) ==
  IF message.isString THEN <<TextPart(message.text)>> ELSE message.items

\* README.md:600 and 630: history || [] (an array, even empty, is truthy)
historyOrEmpty(h, hp) == IF h.defined THEN hp[h.ref] ELSE <<>>

\* README.md:593-642: Gemini.ask and Gemini.askStream start a chat with
\* options.history and send parts; own and expected are ghosts
geminiSend(method, via, message, options, own, expected) ==
  [ via |-> via, method |-> method,
    parts |-> partsOf(message),
    history |-> historyOrEmpty(historyOf(options), heap),
    own |-> own, expected |-> expected ]

\* README.md:403-406 and 420-423: { history: this.history, ...mergedOptions }
chatCallOptions(c, options) ==
  Spread([k \in {"history"} |-> ArrayRef(c.history)], Spread(c.options, options))

\* README.md:379-383: new Chat(gemini, options); given is the ghost of the
\* history given to the constructor followed by the appended messages
InitChat ==
  /\ AsmIdle /\ pc = "none" /\ UpInit /\ FtIdle
  /\ \E options \in CtorOptions, initial \in UNION { [1..n -> Turns] : n \in 0..1 } :
       /\ heap = [r \in 1..4 |->
                    IF r = GivenRef /\ historyOf(options).defined THEN initial
                    ELSE IF r = 4 THEN <<[role |-> "user", parts |-> <<TextPart("z")>>]>>
                    ELSE <<>>]
       /\ chat = [ history |-> IF historyOf(options).defined
                                 THEN historyOf(options).ref ELSE OwnRef,
                   options |-> options,
                   given |-> IF historyOf(options).defined THEN initial ELSE <<>> ]
  /\ sent = [via |-> "none"]

\* README.md:389-391
appendMessage(message) ==
  /\ Len(heap[chat.history]) < MaxHistory
  /\ heap' = [heap EXCEPT ![chat.history] = Append(@, message)]
  /\ chat' = [chat EXCEPT !.given = Append(@, message)]
  /\ UNCHANGED <<sent, asmVars, upVars, ftVars>>

\* README.md:399-407
ChatAsk(message, options) ==
  /\ sent' = geminiSend("sendMessage", "Chat.ask", message,
                        chatCallOptions(chat, options), heap[chat.history], chat.given)
  /\ UNCHANGED <<heap, chat, asmVars, upVars, ftVars>>

\* README.md:415-424
ChatAskStream(message, options) ==
  /\ sent' = geminiSend("sendMessageStream", "Chat.askStream", message,
                        chatCallOptions(chat, options), heap[chat.history], chat.given)
  /\ UNCHANGED <<heap, chat, asmVars, upVars, ftVars>>

\* README.md:593-612
GeminiAsk(message, options) ==
  /\ sent' = geminiSend("sendMessage", "Gemini.ask", message, options, <<>>, <<>>)
  /\ UNCHANGED <<heap, chat, asmVars, upVars, ftVars>>

\* README.md:620-642
GeminiAskStream(message, options) ==
  /\ sent' = geminiSend("sendMessageStream", "Gemini.askStream", message, options,
                        <<>>, <<>>)
  /\ UNCHANGED <<heap, chat, asmVars, upVars, ftVars>>

NextChat ==
  \/ \E m \in Turns : appendMessage(m)
  \/ \E message \in AskMessages, options \in CallOptions : ChatAsk(message, options)
  \/ \E message \in AskMessages, options \in CallOptions : ChatAskStream(message, options)
  \/ \E message \in AskMessages, options \in CallOptions : GeminiAsk(message, options)
  \/ \E message \in AskMessages, options \in CallOptions : GeminiAskStream(message, options)

SpecChat == InitChat /\ [][NextChat]_vars

\* ------------------------------------------------------------------ claims
RECURSIVE SumOver(_, _)
\* the sum of f[k] over the set of indices K
SumOver(f, K) ==
  IF K = {} THEN 0
  ELSE LET k == CHOOSE x \in K : TRUE IN f[k] + SumOver(f, K \ {k})

RECURSIVE Pow(_, _)
Pow(b, e) == IF e = 0 THEN 1 ELSE b * Pow(b, e - 1)

IsPart(x) == isText(x) \/ isInline(x) \/ isFileData(x)
InlineBytes(part) == byteLength(base64Decode(part.inlineData.data))
\* the byte sizes of the inline-data parts of a list of parts, summed
InlineSum(ps) ==
  SumOver([k \in 1..Len(ps) |-> IF isInline(ps[k]) THEN InlineBytes(ps[k]) ELSE 0],
          1..Len(ps))
\* the inputs the loop treats as binary: raw buffers and the objects isFileUpload accepts
BinaryInputs == { j \in 1..Len(messages) : messages[j].kind # "string" /\ isBinary(messages[j]) }
VideoInputs == { j \in BinaryInputs : startsWithVideo(mimeTypeOf(messages[j])) }
SizeSum(J) ==
  SumOver([j \in 1..Len(messages) |->
             IF j \in J THEN byteLength(bufferOf(messages[j])) ELSE 0], J)
PartsOf(j) == { k \in 1..Len(parts) : origin[k] = j }
UploadsOf(j) == { k \in 1..Len(log) : log[k].ev = "upload" /\ log[k].src = j }
Uploads == { k \in 1..Len(log) : log[k].ev = "upload" }
Queries == { k \in 1..Len(log) : log[k].ev = "status" }
Sleeps == SelectSeq(log, LAMBDA e : e.ev = "sleep")

\* C1: every item that Gemini.ask, Gemini.askStream, Chat.ask or Chat.askStream
\* hands to the external sendMessage / sendMessageStream is a text, inline-data
\* or file-data Part: a raw buffer or FileUpload of the message list has been
\* converted before.
C1_OnlyPartsAreSent ==
  sent.via # "none" => \A k \in 1..Len(sent.parts) : IsPart(sent.parts[k])

\* C2: when messageToParts returns, the byte sizes of the inline-data parts of
\* the result sum to at most 20 MiB; and if the inputs that the loop inlines sum
\* to more than 20 MiB, the result has no inline-data part: each of them is a
\* file-data part.
C2_InlineWithinThreshold ==
  pc = "done" =>
    /\ InlineSum(parts) <= 20 * 1024 * 1024
    /\ SizeSum(BinaryInputs \ VideoInputs) > 20 * 1024 * 1024 =>
         /\ \A k \in 1..Len(parts) : ~isInline(parts[k])
         /\ \A j \in BinaryInputs \ VideoInputs :
              \E k \in PartsOf(j) : isFileData(parts[k])

C2_Witness ==
  /\ pc = "done"
  /\ SizeSum(BinaryInputs \ VideoInputs) > 20 * 1024 * 1024
  /\ VideoInputs = {}
  /\ Cardinality(Uploads) = 2

C4_OnePartPerInput ==
  pc = "done" =>
    /\ Len(parts) = Len(messages)
    /\ \A k \in 1..Len(parts) :
         /\ k <= Len(messages)
         /\ IF messages[k].kind = "string"
              THEN parts[k] = TextPart(messages[k].text)
              ELSE /\ ~isText(parts[k])
                   /\ isInline(parts[k]) # isFileData(parts[k])

C6_ReturnsOnlyWhenActive ==
  /\ (upPc = "returned") = (upResult.kind = "uri")
  /\ upPc = "returned" =>
       /\ Len(log) >= 2
       /\ log[1].ev = "upload"
       /\ Uploads = {1}
       /\ log[Len(log)].ev = "status"
       /\ data.state = "ACTIVE"
       /\ data.error = NoError
       /\ fileSendData # NoFile
       /\ upResult.uri = fileSendData.uri

C6_Witness ==
  /\ upPc = "returned"
  /\ Len(Sleeps) >= 2
  /\ Cardinality(Queries) = 3

\* C7: once a status query has answered with an error, uploadFile has failed
\* with an error whose message carries the message of the service, the query
\* is the last thing it did, and from then on it makes no request, no query and
\* no sleep and returns no URI.
C7_ErrorFailsAtOnce ==
  /\ [](data.error # NoError =>
          /\ upPc = "failed"
          /\ upResult.kind = "error"
          /\ \E k \in 1..Len(upResult.message) : upResult.message[k] = data.error
          /\ log[Len(log)].ev = "status")
  /\ [][data.error # NoError => UNCHANGED <<log, upPc, upResult, data>>]_vars

C7_Witness ==
  /\ data.error # NoError
  /\ upPc = "failed"
  /\ Cardinality(Queries) = 3
  /\ Len(Sleeps) = 2

\* C8: the N-th sleep of one uploadFile call lasts min(250 * 1.5^(N-1), 5000)
\* milliseconds, for every N >= 1: 250 first, never more than 5000; and the
\* sleeps are one per non-terminal answer.
BackoffLaw(n) ==
  IF 250 * Pow(3, n - 1) <= 5000 * Pow(2, n - 1)
    THEN Frac(250 * Pow(3, n - 1), Pow(2, n - 1))
    ELSE Frac(5000, 1)

C8_BackoffLaw ==
  /\ Len(Sleeps) = IF upPc = "sleep" THEN pending - 1 ELSE pending
  /\ \A n \in 1..Len(Sleeps) :
       /\ FracEq(Sleeps[n].ms, BackoffLaw(n))
       /\ Sleeps[n].ms.num <= 5000 * Sleeps[n].ms.den
       /\ n = 1 => Sleeps[n].ms = Frac(250, 1)
       /\ (n > 1 /\ 3 * Sleeps[n - 1].ms.num <= 2 * 5000 * Sleeps[n - 1].ms.den) =>
            2 * Sleeps[n].ms.num * Sleeps[n - 1].ms.den
              = 3 * Sleeps[n - 1].ms.num * Sleeps[n].ms.den

C8_Witness ==
  /\ Len(Sleeps) >= 10
  /\ FracEq(Sleeps[8].ms, Frac(273375, 64))
  /\ Sleeps[9].ms = Frac(5000, 1)
  /\ Sleeps[10].ms = Frac(5000, 1)

\* C9: the history that Chat.ask and Chat.askStream forward to Gemini.ask and
\* Gemini.askStream is the chat's own: the history given to the constructor
\* followed by every message given to appendMessage, whatever the per-call
\* options.
C9_ChatForwardsOwnHistory ==
  sent.via \in {"Chat.ask", "Chat.askStream"} =>
    /\ sent.history = sent.expected
    /\ sent.history = sent.own

\* C10 as stated: strict off, the result is a supported type and is text/plain
\* exactly when neither the normalized sniffed type nor the normalized
\* extension type is supported; strict on, the call fails exactly then and
\* otherwise returns that same type.
SniffSupported == sniffedFormat(ftArgs.buffer) \in supportedFileFormats
ExtensionSupported ==
  /\ ftArgs.filePath \notin {Undefined, ""}
  /\ extensionFormat(ftArgs.filePath) \in supportedFileFormats
NeitherSupported == ~SniffSupported /\ ~ExtensionSupported
ChosenFormat ==
  IF SniffSupported THEN sniffedFormat(ftArgs.buffer) ELSE extensionFormat(ftArgs.filePath)

C10_DefaultExactlyWhenUnsupported ==
  ftResult.kind # "none" =>
    /\ ~ftArgs.strict =>
         /\ ftResult.kind = "returned"
         /\ ftResult.format \in supportedFileFormats
         /\ (ftResult.format = "text/plain") = NeitherSupported
    /\ ftArgs.strict =>
         /\ (ftResult.kind = "threw") = NeitherSupported
         /\ ftResult.kind = "returned" => ftResult.format = ChosenFormat

\* C10 as amended: strict off, the result is a supported type: the supported
\* type found (sniffed first, then by extension), and text/plain when neither
\* is supported; so it is text/plain only when neither is supported or the type
\* found is itself text/plain.  Strict on, the call fails exactly when neither
\* is supported and otherwise returns the type found.
C10_DefaultWhenUnsupported ==
  ftResult.kind # "none" =>
    /\ ~ftArgs.strict =>
         /\ ftResult.kind = "returned"
         /\ ftResult.format \in supportedFileFormats
         /\ NeitherSupported => ftResult.format = "text/plain"
         /\ ~NeitherSupported => ftResult.format = ChosenFormat
    /\ ftArgs.strict =>
         /\ (ftResult.kind = "threw") = NeitherSupported
         /\ ftResult.kind = "returned" => ftResult.format = ChosenFormat

C10_Witness ==
  /\ ftResult.kind = "returned"
  /\ ~ftArgs.strict
  /\ ftArgs.buffer.sig = "application/zip"
  /\ ftArgs.filePath = "a.zip"
  /\ ftResult.format = "text/plain"

\* C11: the running total that messageToParts compares with 20 MiB is the sum
\* of the byte sizes of the inputs emitted as inline-data parts: the size of an
\* input classified as video is not added to it.  Hence, when the call
\* returns, a non-video input is a file-data part only if the inputs emitted
\* inline sum to more than 20 MiB.
C11_TotalCountsInlineOnly ==
  /\ totalBytes = SizeSum({ j \in BinaryInputs \ VideoInputs : j < i })
  /\ pc = "done" =>
       \A j \in BinaryInputs \ VideoInputs :
         (\E k \in PartsOf(j) : isFileData(parts[k])) =>
           SizeSum(BinaryInputs \ VideoInputs) > 20 * 1024 * 1024

\* C12: the polling loop has no attempt limit and stops only on a terminal
\* answer.  When the service ends up answering ACTIVE or an error, uploadFile
\* terminates, by returning or by failing; while the last answer is neither
\* ACTIVE nor an error, it has neither returned nor failed, and after each such
\* answer it queries again.
C12_PollsUntilTerminal ==
  /\ <>(upPc \in {"returned", "failed"})
  /\ [](upPc \in {"returned", "failed"} => (upResult.kind = "uri" \/ upResult.kind = "error"))
  /\ []((Queries # {} /\ data.error = NoError /\ data.state # "ACTIVE") =>
          (upPc \in {"sleep", "poll"} /\ upResult = NoResult))
  /\ \A n \in 1..MaxPolls :
       (upPc = "sleep" /\ Cardinality(Queries) = n) ~> (Cardinality(Queries) = n + 1)

C12_Witness ==
  /\ upPc = "returned"
  /\ pending = MaxPolls
  /\ Cardinality(Queries) = MaxPolls + 1
  /\ Len(Sleeps) = MaxPolls

====
